---- MODULE Spec2Model ----
(***************************************************************************)
(* Lighthouse CLI (src/unnamed/part_000): the process supervisor and the   *)
(* sequential job runner.  One macrotask of the Node event loop (the call  *)
(* of run, the settlement of one pending operation, the delivery of one    *)
(* signal) together with the promise reactions it triggers is one action.  *)
(* The program state is read into a record (Cur), transformed by operators *)
(* that follow the source functions, and written back (Commit).            *)
(***************************************************************************)
EXTENDS Naturals, Sequences, FiniteSets

VARIABLES
  skipAutolaunch,  \* cliFlags.skipAutolaunch
  outputMode,      \* cliFlags.output
  flagsPort,       \* cliFlags.port
  addrs0,          \* cliFlags._ as given on the command line (history)
  urls,            \* the address list, consumed by addresses.shift()
  pc,              \* position of the pipeline
  portWaiter,      \* who awaits the 'listening' event of initPort's server
  serverOpen,      \* initPort's probing server is listening
  portWrites,      \* number of assignments to flags.port
  listens,         \* number of server.listen calls
  sigintListener,  \* process.on(SIGINT, ...) has been called
  sigints,         \* number of SIGINT signals delivered
  race,            \* state of Promise.race([launchChromeAndRun(...), isSigint])
  runPromise,      \* state of the promise returned by run()
  pipeOut,         \* state of the promise returned by launchChromeAndRun
  jobLog,          \* addresses lighthouse() was invoked with, in order
  jobsPending,     \* indices (into jobLog) of the jobs in flight
  jobFailure,      \* <<[idx, err]>> of the jobs that rejected
  writeLog,        \* Printer.write calls: [idx, mode]
  writesPending,   \* indices of the primary writes in flight
  secPending,      \* indices of the secondary html writes in flight
  secRejected,     \* indices of the secondary html writes that rejected
  handled,         \* the values handleError was called with
  stderr,          \* what the show*Error functions printed
  exitLog,         \* the codes process.exit was called with
  killedBySignal,  \* the process died of a SIGINT nobody listened to
  fns,             \* cleanup.fns: the behaviour of each registered action
  fnState,         \* per registered action: idle, pending, resolved, rejected, threw
  fnCalls,         \* per registered action: number of invocations
  invokeOrder,     \* indices of the registered actions in order of invocation
  cleanupState,    \* state of the doCleanup() call
  cleanupCalls,    \* number of doCleanup() calls
  launcherLog,     \* the calls made on the ChromeLauncher, in order
  probe,           \* state of the promise of launcher.isDebuggerReady()
  launch,          \* state of the promise of launcher.run()
  writeFailure     \* <<[idx, err]>> of the primary writes that rejected

vars == <<skipAutolaunch, outputMode, flagsPort, addrs0, urls, pc, portWaiter,
          serverOpen, portWrites, listens, sigintListener, sigints, race,
          runPromise, pipeOut, jobLog, jobsPending, jobFailure, writeLog,
          writesPending, secPending, secRejected, handled, stderr, exitLog,
          killedBySignal, fns, fnState, fnCalls, invokeOrder, cleanupState,
          cleanupCalls, launcherLog, probe, launch, writeFailure>>

---------------------------------------------------------------------------
(* Bounds of the model *)

MaxAddrs == 2
MaxFns == 3
MaxSigints == 2

(* Program constants *)

_SIGINT == "SIGINT"
_ERROR_EXIT_CODE == 130
_RUNTIME_ERROR_CODE == 1
_PROTOCOL_TIMEOUT_EXIT_CODE == 67
DefaultPort == 9222

(* Input domains *)

Undefined == "<undefined>"
\* "" is the falsy address; the other two are distinct truthy ones
Addresses == {"", "a", "b"}
\* Printer.OutputMode: pretty is the default
OutputModes == {"pretty", "json"}
\* the ports the operating environment may assign to listen(0)
EphemeralPorts == {49152, 49153}
\* LightHouseError: an optional string code, an optional stack
ErrorCodes == {"ECONNREFUSED", "CRI_TIMEOUT", "EOTHER", Undefined}
Errors == [code : ErrorCodes, stack : BOOLEAN]
\* what a registered cleanup action does when it is invoked
Behaviours == {"resolve", "reject", "throw"}

SeqsUpTo(S, n) == UNION {[1..k -> S] : k \in 0..n}

---------------------------------------------------------------------------
(* The state as a record *)

Cur ==
  [skipAutolaunch |-> skipAutolaunch, outputMode |-> outputMode,
   flagsPort |-> flagsPort, addrs0 |-> addrs0, urls |-> urls, pc |-> pc,
   portWaiter |-> portWaiter, serverOpen |-> serverOpen,
   portWrites |-> portWrites, listens |-> listens,
   sigintListener |-> sigintListener, sigints |-> sigints, race |-> race,
   runPromise |-> runPromise, pipeOut |-> pipeOut, jobLog |-> jobLog,
   jobsPending |-> jobsPending, jobFailure |-> jobFailure,
   writeLog |-> writeLog, writesPending |-> writesPending,
   secPending |-> secPending, secRejected |-> secRejected,
   handled |-> handled, stderr |-> stderr, exitLog |-> exitLog,
   killedBySignal |-> killedBySignal, fns |-> fns, fnState |-> fnState,
   fnCalls |-> fnCalls, invokeOrder |-> invokeOrder,
   cleanupState |-> cleanupState, cleanupCalls |-> cleanupCalls,
   launcherLog |-> launcherLog, probe |-> probe, launch |-> launch,
   writeFailure |-> writeFailure]

Commit(s) ==
  /\ skipAutolaunch' = s.skipAutolaunch /\ outputMode' = s.outputMode
  /\ flagsPort' = s.flagsPort /\ addrs0' = s.addrs0 /\ urls' = s.urls
  /\ pc' = s.pc /\ portWaiter' = s.portWaiter /\ serverOpen' = s.serverOpen
  /\ portWrites' = s.portWrites /\ listens' = s.listens
  /\ sigintListener' = s.sigintListener /\ sigints' = s.sigints
  /\ race' = s.race /\ runPromise' = s.runPromise /\ pipeOut' = s.pipeOut
  /\ jobLog' = s.jobLog /\ jobsPending' = s.jobsPending
  /\ jobFailure' = s.jobFailure /\ writeLog' = s.writeLog
  /\ writesPending' = s.writesPending /\ secPending' = s.secPending
  /\ secRejected' = s.secRejected /\ handled' = s.handled
  /\ stderr' = s.stderr /\ exitLog' = s.exitLog
  /\ killedBySignal' = s.killedBySignal /\ fns' = s.fns
  /\ fnState' = s.fnState /\ fnCalls' = s.fnCalls
  /\ invokeOrder' = s.invokeOrder /\ cleanupState' = s.cleanupState
  /\ cleanupCalls' = s.cleanupCalls /\ launcherLog' = s.launcherLog
  /\ probe' = s.probe /\ launch' = s.launch
  /\ writeFailure' = s.writeFailure

\* the process runs until process.exit is called or a signal kills it
Alive(s) == s.exitLog = <<>> /\ ~s.killedBySignal

---------------------------------------------------------------------------
(* Values a promise is rejected with: the string 'SIGINT' or an error *)

StringValue(str) == [type |-> "string", str |-> str]
ErrorValue(err) == [type |-> "object", err |-> err]
\* maybeSigint === _SIGINT
StrictEq(v, str) == v.type = "string" /\ v.str = str

---------------------------------------------------------------------------
(* The error classifier *)

processExit(s, code) == [s EXCEPT !.exitLog = Append(@, code)]

showConnectionError(s) ==
  processExit([s EXCEPT !.stderr = @ \o <<"Unable to connect to Chrome",
                                          "skip-autolaunch hint">>],
              _RUNTIME_ERROR_CODE)

showRuntimeError(s, err) ==
  processExit([s EXCEPT !.stderr = @ \o <<"Runtime error encountered:">>
                                     \o (IF err.stack THEN <<"err.stack">> ELSE <<>>)],
              _RUNTIME_ERROR_CODE)

showProtocolTimeoutError(s) ==
  processExit([s EXCEPT !.stderr =
                 Append(@, "Debugger protocol timed out while connecting to Chrome.")],
              _PROTOCOL_TIMEOUT_EXIT_CODE)

\* faulty variant: the CRI_TIMEOUT branch is missing
handleErrorNoTimeout(s, err) ==
  LET h == [s EXCEPT !.handled = Append(@, err)]
  IN IF err.code = "ECONNREFUSED" THEN showConnectionError(h)
     ELSE showRuntimeError(h, err)

handleError(s, err) ==
  LET h == [s EXCEPT !.handled = Append(@, err)]
  IN IF err.code = "ECONNREFUSED" THEN showConnectionError(h)
     ELSE IF err.code = "CRI_TIMEOUT" THEN showProtocolTimeoutError(h)
     ELSE showRuntimeError(h, err)

---------------------------------------------------------------------------
(* The cleanup registry *)

\* a registered action: what invoking it calls, and what that call does
KillAction(b) == [calls |-> "launcher.kill", does |-> b]
OtherAction(b) == [calls |-> "fn", does |-> b]

register(s, fn) ==
  [s EXCEPT !.fns = Append(@, fn), !.fnState = Append(@, "idle"),
            !.fnCalls = Append(@, 0)]

\* c(): one registered action is invoked
invoke(s, i) ==
  [s EXCEPT !.fnCalls[i] = @ + 1,
            !.invokeOrder = Append(@, i),
            !.launcherLog = IF s.fns[i].calls = "launcher.kill"
                            THEN Append(@, "kill") ELSE @,
            !.fnState[i] = IF s.fns[i].does = "throw" THEN "threw" ELSE "pending"]

\* this.fns.map(c => c()) from index i on: a throw leaves the map
RECURSIVE mapInvoke(_, _)
mapInvoke(s, i) ==
  IF i > Len(s.fns) THEN s
  ELSE LET called == invoke(s, i)
       IN IF called.fnState[i] = "threw"
          THEN [called EXCEPT !.cleanupState = "threw"]
          ELSE mapInvoke(called, i + 1)

\* Promise.all over the promises the map returned
promiseAll(s) ==
  IF s.cleanupState # "pending" THEN s
  ELSE IF \E i \in 1..Len(s.fns) : s.fnState[i] = "rejected"
       THEN [s EXCEPT !.cleanupState = "rejected"]
  ELSE IF \A i \in 1..Len(s.fns) : s.fnState[i] = "resolved"
       THEN [s EXCEPT !.cleanupState = "resolved"]
  ELSE s

doCleanup(s) ==
  LET m == mapInvoke([s EXCEPT !.cleanupCalls = @ + 1,
                               !.cleanupState = "pending"], 1)
  IN promiseAll(m)

\* the promise a registered action returned settles
fnSettled(s, i) ==
  promiseAll([s EXCEPT !.fnState[i] =
                IF s.fns[i].does = "reject" THEN "rejected" ELSE "resolved"])

---------------------------------------------------------------------------
(* The port resolver *)

\* faulty variant: a server is opened whatever the requested port is
initPortAlwaysListens(s, waiter) ==
  [s EXCEPT !.listens = @ + 1, !.serverOpen = TRUE, !.portWaiter = waiter,
            !.pc = "resolvingPort"]

\* the synchronous part: a supplied port resolves at once, port 0 opens a
\* server and leaves `waiter` waiting for its 'listening' event
initPort(s, waiter) ==
  IF s.flagsPort # 0 THEN s
  ELSE [s EXCEPT !.listens = @ + 1, !.serverOpen = TRUE, !.portWaiter = waiter,
                 !.pc = "resolvingPort"]

\* the 'listening' callback
onListening(s, port) ==
  [s EXCEPT !.flagsPort = port, !.portWrites = @ + 1, !.serverOpen = FALSE,
            !.portWaiter = "none"]

---------------------------------------------------------------------------
(* The sequential runner *)

\* if (!address)
Falsy(address) == address \in {"", Undefined}

\* faulty variant: the job of the following address is started along with
\* the job of the current one instead of after its write
lighthouseRunEager(s) ==
  LET address == IF s.urls = <<>> THEN Undefined ELSE Head(s.urls)
      shifted == IF s.urls = <<>> THEN s ELSE [s EXCEPT !.urls = Tail(@)]
      first == [shifted EXCEPT !.jobLog = Append(@, address),
                               !.jobsPending = @ \cup {Len(s.jobLog) + 1},
                               !.pc = "running"]
  IN IF Falsy(address)
     THEN [st |-> shifted, ret |-> Undefined]
     ELSE IF first.urls # <<>> /\ ~Falsy(Head(first.urls))
     THEN [st |-> [first EXCEPT !.urls = Tail(@),
                                !.jobLog = Append(@, Head(first.urls)),
                                !.jobsPending = @ \cup {Len(first.jobLog) + 1}],
           ret |-> "promise"]
     ELSE [st |-> first, ret |-> "promise"]

\* the synchronous part of lighthouseRun: the state it leaves and what it
\* returns, undefined or the promise of the chain it started
lighthouseRun(s) ==
  LET address == IF s.urls = <<>> THEN Undefined ELSE Head(s.urls)
      shifted == IF s.urls = <<>> THEN s ELSE [s EXCEPT !.urls = Tail(@)]
  IN IF Falsy(address)
     THEN [st |-> shifted, ret |-> Undefined]
     ELSE [st |-> [shifted EXCEPT !.jobLog = Append(@, address),
                                  !.jobsPending = @ \cup {Len(s.jobLog) + 1},
                                  !.pc = "running"],
           ret |-> "promise"]

---------------------------------------------------------------------------
(* The cancellation race and the top level *)

\* faulty variant: process.exit(130) does not wait for doCleanup() to settle
afterCleanupNoAwait(s) ==
  IF s.cleanupState = "threw" THEN [s EXCEPT !.runPromise = "rejected"]
  ELSE processExit(s, _ERROR_EXIT_CODE)

\* .catch(err => {console.error(err); ...}).then(() => process.exit(130))
afterCleanup(s) ==
  IF s.cleanupState = "threw" THEN [s EXCEPT !.runPromise = "rejected"]
  ELSE IF s.cleanupState = "resolved" THEN processExit(s, _ERROR_EXIT_CODE)
  ELSE IF s.cleanupState = "rejected"
       THEN processExit([s EXCEPT !.stderr = @ \o <<"err", "err.stack">>],
                        _ERROR_EXIT_CODE)
  ELSE s

\* faulty variant: every rejection of the race is taken for the interrupt
onRaceRejectedAsSigint(s, maybeSigint) == afterCleanup(doCleanup(s))

\* .catch(maybeSigint => ...) on the race
onRaceRejected(s, maybeSigint) ==
  IF StrictEq(maybeSigint, _SIGINT)
  THEN afterCleanup(doCleanup(s))
  ELSE handleError(s, maybeSigint.err)

\* the promise of launchChromeAndRun settles
pipelineResolved(s) ==
  LET p == [s EXCEPT !.pipeOut = "resolved", !.pc = "settled"]
  IN IF p.race = "pending"
     THEN [p EXCEPT !.race = "resolved", !.runPromise = "resolved"]
     ELSE p

\* faulty variant: the rejection is handled without looking at the state of the race
pipelineRejectedAlways(s, err) ==
  onRaceRejected([s EXCEPT !.pipeOut = "rejected", !.pc = "settled",
                           !.race = IF @ = "pending" THEN "failed" ELSE @],
                 ErrorValue(err))

pipelineRejected(s, err) ==
  LET p == [s EXCEPT !.pipeOut = "rejected", !.pc = "settled"]
  IN IF p.race = "pending"
     THEN onRaceRejected([p EXCEPT !.race = "failed"], ErrorValue(err))
     ELSE p

\* faulty variant: the final .then(() => launcher.kill()) is missing
runnerResolvedNoKill(s) ==
  IF s.skipAutolaunch
  THEN [s EXCEPT !.runPromise = "resolved", !.pc = "settled"]
  ELSE pipelineResolved(s)

\* the outermost lighthouseRun is through: .then(() => launcher.kill()) in
\* launchChromeAndRun, nothing more in the skip-autolaunch branch of run
runnerResolved(s) ==
  IF s.skipAutolaunch
  THEN [s EXCEPT !.runPromise = "resolved", !.pc = "settled"]
  ELSE [s EXCEPT !.launcherLog = Append(@, "kill"), !.pc = "teardown"]

\* a rejection leaves the chain of lighthouseRun: .catch(handleError) in the
\* skip-autolaunch branch, the promise of launchChromeAndRun otherwise
runnerRejected(s, err) ==
  IF s.skipAutolaunch
  THEN [handleError(s, err) EXCEPT !.pc = "settled"]
  ELSE pipelineRejected(s, err)

\* .then(() => lighthouseRun(addresses, config, flags)), and the recursive
\* return lighthouseRun(...) inside the chain
thenLighthouseRun(s) ==
  LET r == lighthouseRun(s)
  IN IF r.ret = Undefined THEN runnerResolved(r.st) ELSE r.st

\* the callback of initPort(flags).then in launchChromeAndRun
launchThen(s, kill) ==
  LET reg == register(s, KillAction(kill))
  IN [reg EXCEPT !.launcherLog = Append(@, "isDebuggerReady"),
                 !.probe = "pending", !.pc = "probing"]

launchChromeAndRun(s, kill) ==
  LET p == initPort(s, "launchChromeAndRun")
  IN IF p.portWaiter = "none" THEN launchThen(p, kill) ELSE p

\* the callback of initPort(cliFlags).then in run
runThen(s, kill) ==
  IF s.skipAutolaunch
  THEN LET r == lighthouseRun(s)
       IN IF r.ret = Undefined
          THEN \* undefined.catch(...) throws a TypeError inside the callback
               [r.st EXCEPT !.runPromise = "rejected", !.pc = "settled"]
          ELSE r.st
  ELSE LET l == launchChromeAndRun(s, kill)
       IN [l EXCEPT !.sigintListener = TRUE, !.race = "pending"]

\* the first SIGINT handler is the one run installs; without one the signal
\* has its default disposition and ends the process
onSigint(s) ==
  LET c == [s EXCEPT !.sigints = @ + 1]
  IN IF ~c.sigintListener THEN [c EXCEPT !.killedBySignal = TRUE]
     ELSE IF c.race = "pending"
          THEN onRaceRejected([c EXCEPT !.race = "sigint"], StringValue(_SIGINT))
     ELSE c

\* run(): initPort(cliFlags).then(...)
run(s, kill) ==
  LET p == initPort(s, "run")
  IN IF p.portWaiter = "none" THEN runThen(p, kill) ELSE p

\* server.on('listening', ...): the port is set, then resolve() runs the
\* callback of whoever called initPort
listening(s, port, kill) ==
  LET l == onListening(s, port)
  IN IF s.portWaiter = "run" THEN runThen(l, kill) ELSE launchThen(l, kill)

\* a promise returned by a registered action settles while the SIGINT branch
\* of run awaits doCleanup()
cleanupActionSettled(s, i) ==
  LET f == fnSettled(s, i)
  IN IF s.race = "sigint" /\ s.cleanupState = "pending" /\ f.cleanupState # "pending"
     THEN afterCleanup(f)
     ELSE f

\* faulty variant: launcher.run() is chained with then instead of catch
probeResolvedLaunches(s) ==
  [s EXCEPT !.probe = "resolved", !.launcherLog = Append(@, "run"),
            !.launch = "pending", !.pc = "launching"]

\* launcher.isDebuggerReady() resolved: .then(() => lighthouseRun(...))
probeResolved(s) == thenLighthouseRun([s EXCEPT !.probe = "resolved"])

\* launcher.isDebuggerReady() rejected: .catch(() => launcher.run())
probeRejected(s) ==
  [s EXCEPT !.probe = "rejected", !.launcherLog = Append(@, "run"),
            !.launch = "pending", !.pc = "launching"]

\* launcher.run() settled
launchResolved(s) == thenLighthouseRun([s EXCEPT !.launch = "resolved"])

\* faulty variant: the failure of launcher.run() is swallowed and the runner starts
launchRejectedSwallowed(s, err) ==
  thenLighthouseRun([s EXCEPT !.launch = "rejected"])

launchRejected(s, err) == pipelineRejected([s EXCEPT !.launch = "rejected"], err)

\* lighthouse(address, flags, config) resolved: Printer.write(results, outputMode, outputPath)
jobResolved(s, i) ==
  [s EXCEPT !.jobsPending = @ \ {i},
            !.writeLog = Append(@, [idx |-> i, mode |-> s.outputMode]),
            !.writesPending = @ \cup {i}]

\* faulty variant: the rejection of a job is swallowed and the next address is taken
jobRejectedContinues(s, i, err) ==
  thenLighthouseRun([s EXCEPT !.jobsPending = @ \ {i},
                              !.jobFailure = Append(@, [idx |-> i, err |-> err])])

jobRejected(s, i, err) ==
  runnerRejected([s EXCEPT !.jobsPending = @ \ {i},
                           !.jobFailure = Append(@, [idx |-> i, err |-> err])],
                 err)

\* the primary write resolved: the html copy in pretty mode, then the next address
writeResolved(s, i) ==
  LET w == [s EXCEPT !.writesPending = @ \ {i}]
      h == IF s.outputMode = "pretty"
           THEN [w EXCEPT !.writeLog = Append(@, [idx |-> i, mode |-> "html"]),
                          !.secPending = @ \cup {i}]
           ELSE w
  IN thenLighthouseRun(h)

writeRejected(s, i, err) ==
  runnerRejected([s EXCEPT !.writesPending = @ \ {i},
                           !.writeFailure = Append(@, [idx |-> i, err |-> err])],
                 err)

---------------------------------------------------------------------------
(* Actions: one macrotask each *)

Run ==
  /\ pc = "init" /\ Alive(Cur)
  /\ \E kill \in Behaviours : Commit(run(Cur, kill))

Listening ==
  /\ pc = "resolvingPort" /\ serverOpen /\ Alive(Cur)
  /\ \E port \in EphemeralPorts, kill \in Behaviours :
       Commit(listening(Cur, port, kill))

ProbeResolve ==
  /\ pc = "probing" /\ Alive(Cur)
  /\ Commit(probeResolved(Cur))

ProbeReject ==
  /\ pc = "probing" /\ Alive(Cur)
  /\ Commit(probeRejected(Cur))

LaunchResolve ==
  /\ pc = "launching" /\ Alive(Cur)
  /\ Commit(launchResolved(Cur))

LaunchReject ==
  /\ pc = "launching" /\ Alive(Cur)
  /\ \E err \in Errors : Commit(launchRejected(Cur, err))

JobResolve ==
  /\ Alive(Cur)
  /\ \E i \in jobsPending : Commit(jobResolved(Cur, i))

JobReject ==
  /\ Alive(Cur)
  /\ \E i \in jobsPending, err \in Errors : Commit(jobRejected(Cur, i, err))

WriteResolve ==
  /\ Alive(Cur)
  /\ \E i \in writesPending : Commit(writeResolved(Cur, i))

WriteReject ==
  /\ Alive(Cur)
  /\ \E i \in writesPending, err \in Errors : Commit(writeRejected(Cur, i, err))

\* the html copy settles; nobody holds its promise
SecondaryResolve ==
  /\ Alive(Cur)
  /\ \E i \in secPending : Commit([Cur EXCEPT !.secPending = @ \ {i}])

SecondaryReject ==
  /\ Alive(Cur)
  /\ \E i \in secPending :
       Commit([Cur EXCEPT !.secPending = @ \ {i}, !.secRejected = @ \cup {i}])

\* the launcher.kill() at the end of launchChromeAndRun resolved
KillResolve ==
  /\ pc = "teardown" /\ Alive(Cur)
  /\ Commit(pipelineResolved(Cur))

KillReject ==
  /\ pc = "teardown" /\ Alive(Cur)
  /\ \E err \in Errors : Commit(pipelineRejected(Cur, err))

Sigint ==
  /\ Alive(Cur) /\ sigints < MaxSigints
  /\ Commit(onSigint(Cur))

CleanupActionSettle ==
  /\ Alive(Cur)
  /\ \E i \in 1..Len(fns) :
       /\ fnState[i] = "pending"
       /\ Commit(cleanupActionSettled(Cur, i))

---------------------------------------------------------------------------
(* The run of the command line program *)

InitWith(skip, mode, port, addresses) ==
  /\ skipAutolaunch = skip /\ outputMode = mode /\ flagsPort = port
  /\ addrs0 = addresses /\ urls = addresses
  /\ pc = "init" /\ portWaiter = "none" /\ serverOpen = FALSE
  /\ portWrites = 0 /\ listens = 0
  /\ sigintListener = FALSE /\ sigints = 0
  /\ race = "none" /\ runPromise = "pending" /\ pipeOut = "pending"
  /\ jobLog = <<>> /\ jobsPending = {} /\ jobFailure = <<>>
  /\ writeLog = <<>> /\ writesPending = {}
  /\ secPending = {} /\ secRejected = {}
  /\ handled = <<>> /\ stderr = <<>> /\ exitLog = <<>>
  /\ killedBySignal = FALSE
  /\ fns = <<>> /\ fnState = <<>> /\ fnCalls = <<>> /\ invokeOrder = <<>>
  /\ cleanupState = "idle" /\ cleanupCalls = 0
  /\ launcherLog = <<>> /\ probe = "none" /\ launch = "none"
  /\ writeFailure = <<>>

Init ==
  \E skip \in BOOLEAN, mode \in OutputModes, port \in {0, DefaultPort},
     addresses \in SeqsUpTo(Addresses, MaxAddrs) :
    InitWith(skip, mode, port, addresses)

Next ==
  \/ Run \/ Listening
  \/ ProbeResolve \/ ProbeReject \/ LaunchResolve \/ LaunchReject
  \/ JobResolve \/ JobReject \/ WriteResolve \/ WriteReject
  \/ SecondaryResolve \/ SecondaryReject
  \/ KillResolve \/ KillReject
  \/ Sigint \/ CleanupActionSettle

Spec == Init /\ [][Next]_vars

---------------------------------------------------------------------------
(* The cleanup registry on its own: actions are registered, then doCleanup *)
(* is called once and the promises of the actions settle in any order      *)

Register ==
  /\ cleanupCalls = 0 /\ Len(fns) < MaxFns
  /\ \E b \in Behaviours : Commit(register(Cur, OtherAction(b)))

DoCleanup ==
  /\ cleanupCalls = 0
  /\ Commit(doCleanup(Cur))

InitRegistry == InitWith(FALSE, "pretty", DefaultPort, <<>>)

NextRegistry == Register \/ DoCleanup \/ CleanupActionSettle

SpecRegistry == InitRegistry /\ [][NextRegistry]_vars

---------------------------------------------------------------------------
(* Derived notions used by the properties *)

\* RunOutcome: the tag of the terminal outcome, "none" while there is none
Outcome ==
  IF exitLog # <<>>
  THEN IF exitLog[1] = 130 THEN "Interrupted" ELSE "Failed"
  ELSE IF runPromise = "resolved" THEN "Success" ELSE "none"

IsPrefix(p, q) == Len(p) <= Len(q) /\ \A i \in 1..Len(p) : p[i] = q[i]

Count(seq, x) == Cardinality({i \in 1..Len(seq) : seq[i] = x})

---------------------------------------------------------------------------
(* Properties *)

\* C1: in a run without a failing job or write and without an interrupt, for
\* every non-empty address list the job is invoked once per address and in
\* input order: the invocations made so far are always a prefix of the
\* input, and when the run has ended as Success they are the whole input,
\* whatever the addresses are.
C1_OncePerAddressInOrder ==
  (addrs0 # <<>> /\ sigints = 0 /\ jobFailure = <<>> /\ secRejected = {})
    => /\ IsPrefix(jobLog, addrs0)
       /\ Outcome = "Success" => jobLog = addrs0

\* C2 as stated: when the job of address k has failed, no later job is
\* invoked, nothing is written for address k, and the failure is what the
\* error classifier receives; a generic failure ends the run as
\* Failed(RuntimeError) with exit code 1.
C2_JobFailureOrig ==
  \A n \in 1..Len(jobFailure) :
    LET f == jobFailure[n]
    IN /\ Len(jobLog) = f.idx
       /\ \A w \in 1..Len(writeLog) : writeLog[w].idx # f.idx
       /\ handled = <<f.err>>
       /\ f.err.code \notin {"ECONNREFUSED", "CRI_TIMEOUT"}
            => /\ exitLog = <<1>>
               /\ stderr[1] = "Runtime error encountered:"

\* C2 amended: when the job of address k has failed, no later job is invoked
\* and nothing is written for address k; unless the interrupt had already
\* won the race, the failure is what the error classifier receives and a
\* generic failure ends the run as Failed(RuntimeError) with exit code 1; if
\* the interrupt had won, the failure is dropped and the classifier is never
\* called.
C2_JobFailureAborts ==
  \A n \in 1..Len(jobFailure) :
    LET f == jobFailure[n]
    IN /\ Len(jobLog) = f.idx
       /\ \A w \in 1..Len(writeLog) : writeLog[w].idx # f.idx
       /\ race # "sigint"
            => /\ handled = <<f.err>>
               /\ f.err.code \notin {"ECONNREFUSED", "CRI_TIMEOUT"}
                    => /\ exitLog = <<1>>
                       /\ stderr[1] = "Runtime error encountered:"
       /\ race = "sigint" => handled = <<>> /\ 1 \notin {exitLog[e] : e \in 1..Len(exitLog)}

\* the first of two addresses failed with a generic error while a second,
\* valid address was still waiting
C2_Witness ==
  /\ Len(jobFailure) = 1 /\ jobFailure[1].idx = 1
  /\ jobFailure[1].err.code = "EOTHER"
  /\ Len(addrs0) = 2 /\ urls = <<"b">>
  /\ exitLog = <<1>>

\* C3: in auto-launch mode the first of the pipeline and the interrupt to
\* settle decides.  Once the interrupt has won, the classifier is never
\* called, the run never becomes Success, the only exit code is 130, and the
\* exit has happened as soon as doCleanup has settled, however far the
\* pipeline was and however it settles later.  Once the pipeline has settled
\* first, its outcome alone gives the exit code (none on success, the
\* classified failure's otherwise) and no interrupt starts a cleanup.
C3_FirstSettledDecides ==
  /\ race = "sigint"
       => /\ handled = <<>> /\ runPromise # "resolved"
          /\ exitLog \in {<<>>, <<130>>}
          /\ cleanupState \in {"resolved", "rejected"} => exitLog = <<130>>
  /\ race = "resolved"
       => /\ Outcome = "Success" /\ exitLog = <<>> /\ handled = <<>>
          /\ cleanupCalls = 0 /\ pipeOut = "resolved"
  /\ race = "failed"
       => /\ Outcome = "Failed" /\ Len(handled) = 1 /\ cleanupCalls = 0
          /\ exitLog = <<IF handled[1].code = "CRI_TIMEOUT" THEN 67 ELSE 1>>

\* the interrupt won while a job was pending, the abandoned pipeline failed
\* afterwards, and the run still ended with 130
C3_Witness ==
  /\ race = "sigint" /\ pipeOut = "rejected" /\ jobFailure # <<>>
  /\ exitLog = <<130>>

\* C4: when the interrupt has won, process.exit(130) happens only after every
\* registered cleanup action has been invoked exactly once and has settled,
\* whatever the abandoned pipeline does; further interrupts neither start a
\* second doCleanup nor end the process while the cleanup is pending.
C4_ExitAfterCleanup ==
  /\ cleanupCalls <= 1
  /\ race = "sigint"
       => /\ cleanupCalls = 1
          /\ cleanupState = "pending" => exitLog = <<>>
  /\ exitLog = <<130>>
       => \A i \in 1..Len(fns) :
            fnCalls[i] = 1 /\ fnState[i] \in {"resolved", "rejected"}

\* exit 130 after a second interrupt arrived while the cleanup was pending
\* and the abandoned pipeline went on to its next step
C4_Witness ==
  /\ exitLog = <<130>> /\ sigints = 2 /\ Len(fns) = 1
  /\ writeLog # <<>>

\* C5: on every exit path every registered cleanup action has been attempted
\* before the process exits; a managed worker that was launched has been
\* killed before the exit with code 1 or 67.
C5_CleanupOnEveryExit ==
  exitLog # <<>>
    => /\ \A i \in 1..Len(fns) : fnCalls[i] >= 1
       /\ (Count(launcherLog, "run") > 0 /\ exitLog[1] \in {1, 67})
            => Count(launcherLog, "kill") > 0

\* C6: one call of doCleanup invokes each of the N registered actions
\* exactly once, in registration order, whichever of them fail by throwing
\* or by rejecting.
C6_AllInvokedInOrder ==
  cleanupCalls = 1
    => /\ invokeOrder = [i \in 1..Len(fns) |-> i]
       /\ \A i \in 1..Len(fns) : fnCalls[i] = 1

\* C7: doCleanup never throws and never settles as a failure, and it settles
\* only once all registered actions have settled.
C7_NeverFailsWaitsForAll ==
  /\ cleanupState \notin {"threw", "rejected"}
  /\ cleanupState = "resolved"
       => \A i \in 1..Len(fns) : fnState[i] \in {"resolved", "rejected", "threw"}

\* C8: handleError maps every failure to one category and its exit code in
\* fixed priority: code ECONNREFUSED is ConnectionRefused with exit code 1
\* whatever else the failure carries, otherwise code CRI_TIMEOUT is
\* ProtocolTimeout with exit code 67, and every other failure, one without a
\* code included, is RuntimeError with exit code 1 (with its stack printed
\* when it has one).
C8_Classification ==
  /\ Len(handled) <= 1
  /\ handled # <<>>
       => LET err == handled[1]
          IN IF err.code = "ECONNREFUSED"
             THEN /\ exitLog = <<1>>
                  /\ stderr = <<"Unable to connect to Chrome", "skip-autolaunch hint">>
             ELSE IF err.code = "CRI_TIMEOUT"
             THEN /\ exitLog = <<67>>
                  /\ stderr = <<"Debugger protocol timed out while connecting to Chrome.">>
             ELSE /\ exitLog = <<1>>
                  /\ stderr = IF err.stack
                              THEN <<"Runtime error encountered:", "err.stack">>
                              ELSE <<"Runtime error encountered:">>

\* a failure with the connection-refused code that also carries a stack was
\* classified
C8_Witness ==
  /\ handled = <<[code |-> "ECONNREFUSED", stack |-> TRUE]>>
  /\ exitLog = <<1>>

\* C9: a run has at most one terminal outcome: process.exit is called at most
\* once and never in a run that resolved as Success, the code is 1, 67 or
\* 130, and 130 is produced only when the interrupt won the race, never for
\* a failure of the pipeline.
C9_OneOutcome ==
  /\ Len(exitLog) <= 1
  /\ \A e \in 1..Len(exitLog) : exitLog[e] \in {1, 67, 130}
  /\ exitLog # <<>> => runPromise # "resolved"
  /\ exitLog = <<130>> => race = "sigint" /\ handled = <<>> /\ sigints > 0
  /\ (race = "failed" \/ handled # <<>>)
       => exitLog # <<>> /\ exitLog[1] \in {1, 67}

\* the interrupt path produced 130 after the abandoned pipeline had failed
\* with a protocol timeout
C9_Witness ==
  /\ exitLog = <<130>> /\ pipeOut = "rejected"
  /\ Count(launcherLog, "run") = 1 /\ jobLog = <<>>

\* C10: in launchChromeAndRun the readiness probe is the first call made on
\* the launcher and is made once; launcher.run is called at most once, and
\* it has been called exactly when the probe has failed; without
\* launchChromeAndRun (skip-autolaunch) the launcher is never used.
C10_ProbeFirstLaunchOnce ==
  /\ launcherLog # <<>> => launcherLog[1] = "isDebuggerReady"
  /\ Count(launcherLog, "isDebuggerReady") <= 1
  /\ Count(launcherLog, "run") = (IF probe = "rejected" THEN 1 ELSE 0)
  /\ probe # "none" <=> Count(launcherLog, "isDebuggerReady") = 1
  /\ skipAutolaunch => launcherLog = <<>>

\* the probe failed, the worker was launched once and the run went through
C10_Witness ==
  /\ probe = "rejected" /\ Count(launcherLog, "run") = 1
  /\ jobLog # <<>> /\ Outcome = "Success"

\* C11: the interrupt listener is active from the start of the run in every
\* configuration: once run has been called, no interrupt ends the process
\* without doCleanup, and an interrupt that arrives before the pipeline has
\* settled puts the run on the cleanup path (doCleanup called, the only exit
\* code being 130).
C11_InterruptAlwaysCleansUp ==
  /\ killedBySignal => pc = "init"
  /\ (sigints > 0 /\ pc # "init" /\ race \notin {"resolved", "failed"})
       => /\ race = "sigint" /\ cleanupCalls = 1
          /\ exitLog \in {<<>>, <<130>>}

C13_NextJobAfterAllWrites ==
  \A i \in writesPending \cup secPending : Len(jobLog) <= i

\* C14: in a run without interrupt, a failure of the writer for address k,
\* of the primary write or of the secondary html write, reaches the error
\* classifier, ends the run as a failure and keeps the job from being
\* invoked for the addresses after k.
C14_WriterFailureAborts ==
  sigints = 0
    => /\ \A n \in 1..Len(writeFailure) :
            /\ Len(jobLog) = writeFailure[n].idx
            /\ handled = <<writeFailure[n].err>> /\ Outcome = "Failed"
       /\ \A i \in secRejected :
            Len(jobLog) = i /\ handled # <<>> /\ Outcome = "Failed"

\* kills made by doCleanup through the registered actions, and the other kills
RegistryKills ==
  Cardinality({n \in 1..Len(invokeOrder) : fns[invokeOrder[n]].calls = "launcher.kill"})

DirectKills == Count(launcherLog, "kill") - RegistryKills

C16_PortResolvedOnce ==
  /\ portWrites <= 1 /\ listens <= 1 /\ portWrites <= listens
  /\ flagsPort = DefaultPort => listens = 0 /\ portWrites = 0 /\ ~serverOpen
  /\ flagsPort \in EphemeralPorts => listens = 1 /\ portWrites = 1
  /\ flagsPort = 0 => pc \in {"init", "resolvingPort"} /\ portWrites = 0
  /\ serverOpen <=> pc = "resolvingPort"
  /\ pc \notin {"init", "resolvingPort"} => flagsPort > 0 /\ ~serverOpen

\* port 0 was replaced once and launchChromeAndRun, which calls initPort
\* again, has come to its probe
C16_Witness ==
  /\ flagsPort \in EphemeralPorts /\ portWrites = 1 /\ listens = 1
  /\ ~serverOpen /\ probe = "resolved" /\ jobLog # <<>>

\* C17: at most one per-target job is in flight in every reachable state,
\* the job in flight is the last one invoked, and no write of an earlier
\* result is awaited while it runs; this holds as well after the interrupt has
\* won the race and the abandoned pipeline runs on.
C17_OneJobInFlight ==
  /\ Cardinality(jobsPending) <= 1
  /\ jobsPending \subseteq {Len(jobLog)}
  /\ jobsPending # {} => writesPending = {}

\* the interrupt has won and the abandoned pipeline has its second job in flight
C17_Witness ==
  /\ race = "sigint" /\ Len(jobLog) = 2 /\ jobsPending = {2}
  /\ exitLog = <<>>

\* C18: once the interrupt has won the race, no step of the process invokes
\* the per-target job again: the sequence of job invocations stays as it was
\* when the interrupt was received, until the process terminates.
C18_NoSchedulingAfterInterrupt ==
  [][race = "sigint" => jobLog' = jobLog]_vars

\* C19: a per-target job has been invoked only if the port is resolved and,
\* in auto-launch mode, the probe resolved or the launch that followed its
\* failure resolved; a run whose launch failed has invoked no job and
\* written no result.
C19_JobsOnlyWhenReady ==
  /\ jobLog # <<>> =>
       /\ flagsPort > 0 /\ ~serverOpen /\ pc \notin {"init", "resolvingPort"}
       /\ ~skipAutolaunch => (probe = "resolved" \/ launch = "resolved")
  /\ launch # "none" => probe = "rejected"
  /\ launch \in {"pending", "rejected"} =>
       jobLog = <<>> /\ writeLog = <<>> /\ jobsPending = {} /\ writesPending = {}

\* the probe failed, the launch failed with a protocol timeout, the run ended
\* with exit code 67
C19_Witness ==
  /\ probe = "rejected" /\ launch = "rejected"
  /\ exitLog = <<_PROTOCOL_TIMEOUT_EXIT_CODE>>
  /\ jobLog = <<>> /\ writeLog = <<>>

\* C20: in an auto-launch run that ended as Success or Interrupted the
\* worker's kill was invoked exactly once, whatever the position of the
\* interrupt relative to the pipeline.
C20_KillExactlyOnce ==
  (~skipAutolaunch /\ Outcome \in {"Success", "Interrupted"}) =>
     Count(launcherLog, "kill") = 1

====
